---- MODULE Spec2Model ----
(***************************************************************************)
(* Education savings calculator (src/main.py): starting allocation, glide  *)
(* path, required-deposit binary search, year-by-year projection, and the  *)
(* submitted path of main() that chains them.                              *)
(*                                                                         *)
(* Numbers.  Percentages are integers in hundredths of a percent (44.89 is *)
(* 4489); round(x, 2) is RoundHalfEven to that unit.  Money is an exact    *)
(* non-negative rational [n, d] whose numerator and denominator are        *)
(* arbitrary-precision naturals (little-endian sequences of limbs), since  *)
(* the values of the search need far more than 32 bits.  The program's     *)
(* IEEE doubles are modelled by the reals they approximate.                *)
(***************************************************************************)
EXTENDS Integers, Sequences, FiniteSets, TLC

(***************************************************************************)
(* Arbitrary-precision naturals: <<>> is 0, no leading (high) zero limb.   *)
(***************************************************************************)
Base == 100 * 100

Min(a, b) == IF a <= b THEN a ELSE b
Max(a, b) == IF a >= b THEN a ELSE b

RECURSIVE BFromNat(_)
BFromNat(k) == IF k = 0 THEN <<>> ELSE <<k % Base>> \o BFromNat(k \div Base)

RECURSIVE BNorm(_)
BNorm(a) ==
    IF a = <<>> THEN <<>>
    ELSE IF a[Len(a)] = 0 THEN BNorm(SubSeq(a, 1, Len(a) - 1)) ELSE a

RECURSIVE BAddC(_, _, _, _)
BAddC(a, b, i, c) ==
    IF i > Len(a) /\ i > Len(b)
    THEN IF c = 0 THEN <<>> ELSE <<c>>
    ELSE LET x == IF i <= Len(a) THEN a[i] ELSE 0
             y == IF i <= Len(b) THEN b[i] ELSE 0
             s == x + y + c
         IN  <<s % Base>> \o BAddC(a, b, i + 1, s \div Base)

BAdd(a, b) == BAddC(a, b, 1, 0)

\* a - b for a >= b
RECURSIVE BSubC(_, _, _, _)
BSubC(a, b, i, c) ==
    IF i > Len(a) THEN <<>>
    ELSE LET y == IF i <= Len(b) THEN b[i] ELSE 0
             s == a[i] - y - c
         IN  IF s < 0 THEN <<s + Base>> \o BSubC(a, b, i + 1, 1)
                      ELSE <<s>> \o BSubC(a, b, i + 1, 0)

BSub(a, b) == BNorm(BSubC(a, b, 1, 0))

\* a * m for one limb 0 <= m < Base
RECURSIVE BMulC(_, _, _, _)
BMulC(a, m, i, c) ==
    IF i > Len(a)
    THEN IF c = 0 THEN <<>> ELSE <<c>>
    ELSE LET s == a[i] * m + c
         IN  <<s % Base>> \o BMulC(a, m, i + 1, s \div Base)

BMulLimb(a, m) == IF m = 0 THEN <<>> ELSE BMulC(a, m, 1, 0)

RECURSIVE BMulAt(_, _, _)
BMulAt(a, b, j) ==
    IF j > Len(b) THEN <<>>
    ELSE LET rest == BMulAt(a, b, j + 1)
         IN  BAdd(BMulLimb(a, b[j]), IF rest = <<>> THEN <<>> ELSE <<0>> \o rest)

BMul(a, b) == IF a = <<>> \/ b = <<>> THEN <<>> ELSE BMulAt(a, b, 1)

\* -1, 0, 1 as a < b, a = b, a > b
RECURSIVE BCmpAt(_, _, _)
BCmpAt(a, b, i) ==
    IF i = 0 THEN 0
    ELSE IF a[i] < b[i] THEN -1
    ELSE IF a[i] > b[i] THEN 1
    ELSE BCmpAt(a, b, i - 1)

BCmp(a, b) ==
    IF Len(a) < Len(b) THEN -1
    ELSE IF Len(a) > Len(b) THEN 1
    ELSE BCmpAt(a, b, Len(a))

\* a \div m and a % m for a small m (2 or 5), from the high limb down
RECURSIVE BDivAt(_, _, _, _)
BDivAt(a, m, i, rem) ==
    IF i = 0 THEN <<>>
    ELSE LET x == rem * Base + a[i]
         IN  BDivAt(a, m, i - 1, x % m) \o <<x \div m>>

BDivSmall(a, m) == BNorm(BDivAt(a, m, Len(a), 0))
BDivides(m, a) == a = <<>> \/ a[1] % m = 0   \* m divides Base

\* n/d with the common factors m of n and d cancelled
RECURSIVE Cancel(_, _, _)
Cancel(n, d, m) ==
    IF n # <<>> /\ BDivides(m, n) /\ BDivides(m, d)
    THEN Cancel(BDivSmall(n, m), BDivSmall(d, m), m)
    ELSE <<n, d>>

(***************************************************************************)
(* Exact rationals.  neg is set only by QInt of a negative integer (a goal  *)
(* handed back untouched); the arithmetic below is on non-negative values. *)
(***************************************************************************)
Q(n, d) == [neg |-> FALSE, n |-> BFromNat(n), d |-> BFromNat(d)]
QInt(i) == [neg |-> i < 0, n |-> BFromNat(IF i < 0 THEN -i ELSE i), d |-> <<1>>]
QZero == Q(0, 1)

\* The same value with the common factors 2 and 5 cancelled: every denominator
\* the program produces is a product of powers of 2 (halving) and of 10
\* (percentages and return rates), so this keeps the terms small.
QNorm(a) ==
    IF a.n = <<>> THEN [neg |-> FALSE, n |-> <<>>, d |-> <<1>>]
    ELSE LET t == Cancel(a.n, a.d, 2)
             f == Cancel(t[1], t[2], 5)
         IN  [neg |-> FALSE, n |-> f[1], d |-> f[2]]

QMul(a, b) == [neg |-> FALSE, n |-> BMul(a.n, b.n), d |-> BMul(a.d, b.d)]
QAdd(a, b) ==
    IF a.d = b.d
    THEN [neg |-> FALSE, n |-> BAdd(a.n, b.n), d |-> a.d]
    ELSE QNorm([neg |-> FALSE, n |-> BAdd(BMul(a.n, b.d), BMul(b.n, a.d)),
                d |-> BMul(a.d, b.d)])
QCmp(a, b) == BCmp(BMul(a.n, b.d), BMul(b.n, a.d))
QLess(a, b) == QCmp(a, b) < 0
QLeq(a, b) == QCmp(a, b) <= 0
QEq(a, b) == a.neg = b.neg /\ QCmp(a, b) = 0
\* |a - b|
QAbsDiff(a, b) ==
    LET x == BMul(a.n, b.d)
        y == BMul(b.n, a.d)
    IN  [neg |-> FALSE,
         n |-> IF BCmp(x, y) >= 0 THEN BSub(x, y) ELSE BSub(y, x),
         d |-> BMul(a.d, b.d)]
\* a / 2
QHalf(a) == QNorm([neg |-> FALSE, n |-> a.n, d |-> BMulLimb(a.d, 2)])

\* Python's round(): the nearest integer to num / den (den > 0), ties to even
RoundHalfEven(num, den) ==
    LET q == num \div den
        r == num % den
    IN  IF 2 * r < den THEN q
        ELSE IF 2 * r > den THEN q + 1
        ELSE IF q % 2 = 0 THEN q ELSE q + 1

(***************************************************************************)
(* Constants of src/main.py.  Returns are in thousandths (0.113 is 113),   *)
(* allocation limits in whole percent.                                     *)
(***************************************************************************)
STOCKS_RETURN == 113
BONDS_RETURN == 46
CASH_RETURN == 41
CUSHION_PERCENTAGE == 15
END_ALLOCATION == [stocks |-> 20, bonds |-> 43, cash |-> 37]
MAX_START_STOCKS == 80
MAX_START_BONDS == 70
MIN_START_CASH == 5
\* range(20) of the binary search
SearchIterations == 20
\* abs(final_value - goal) < 0.01
Tolerance == Q(1, 100)

\* hundredths of a percent in a percent; the finer unit start allocations are
\* computed in before rounding (1/10000 of a percent)
Hundredths(p) == p * 100
Fine(p) == p * 10000
\* round(x, 2) of a percentage x given in the fine unit
Round2(x) == RoundHalfEven(x, 100)

(***************************************************************************)
(* calculate_start_allocation                                              *)
(***************************************************************************)
\* time_factor = min(time_horizon / 10, 1), in tenths
TimeFactor10(time_horizon) == Min(time_horizon, 10)

\* mutant: raw time_horizon / 10 and no cap
StartStocks_Uncapped(time_horizon) ==
    Fine(END_ALLOCATION.stocks)
        + (Fine(MAX_START_STOCKS - END_ALLOCATION.stocks) * time_horizon) \div 10

StartStocks(time_horizon) ==
    Min(Fine(END_ALLOCATION.stocks)
          + (Fine(MAX_START_STOCKS - END_ALLOCATION.stocks) * TimeFactor10(time_horizon)) \div 10,
        Fine(MAX_START_STOCKS))

\* ... * time_factor * 0.7
StartBondsFirst(time_horizon) ==
    Min(Fine(END_ALLOCATION.bonds)
          + (Fine(MAX_START_BONDS - END_ALLOCATION.bonds) * TimeFactor10(time_horizon) * 7) \div 100,
        Fine(MAX_START_BONDS))

StartCash(start_stocks, start_bonds) ==
    Max(Fine(MIN_START_CASH), Fine(100) - start_stocks - start_bonds)

\* mutant: bonds left as first computed
StartBondsAdjusted_Skipped(start_stocks, start_bonds, start_cash) == start_bonds

\* "Adjust bonds to make total 100%"
StartBondsAdjusted(start_stocks, start_bonds, start_cash) ==
    Fine(100) - start_stocks - start_cash

calculate_start_allocation(time_horizon) ==
    LET start_stocks == StartStocks(time_horizon)
        first_bonds == StartBondsFirst(time_horizon)
        start_cash == StartCash(start_stocks, first_bonds)
        start_bonds == StartBondsAdjusted(start_stocks, first_bonds, start_cash)
    IN  [stocks |-> Round2(start_stocks),
         bonds |-> Round2(start_bonds),
         cash |-> Round2(start_cash)]

(***************************************************************************)
(* generate_glide_path: one entry of the loop, and the whole list          *)
(***************************************************************************)
\* mutant: divides by the number of entries, time_horizon + 1
Interpolate_OffByOne(start, end, year, time_horizon) ==
    RoundHalfEven(start * (time_horizon + 1) + (end - start) * year, time_horizon + 1)

\* round(start + (end - start) * year / time_horizon, 2), time_horizon > 0
Interpolate(start, end, year, time_horizon) ==
    RoundHalfEven(start * time_horizon + (end - start) * year, time_horizon)

GlideEntry(start, year, time_horizon) ==
    [year |-> year,
     stocks |-> Interpolate(start.stocks, Hundredths(END_ALLOCATION.stocks), year, time_horizon),
     bonds |-> Interpolate(start.bonds, Hundredths(END_ALLOCATION.bonds), year, time_horizon),
     cash |-> Interpolate(start.cash, Hundredths(END_ALLOCATION.cash), year, time_horizon)]

\* the list generate_glide_path returns for time_horizon # 0 (empty below 0)
generate_glide_path(time_horizon) ==
    [i \in 1..(time_horizon + 1) |->
        GlideEntry(calculate_start_allocation(time_horizon), i - 1, time_horizon)]

(***************************************************************************)
(* One year of growth, shared by the solver's simulation and the projection*)
(***************************************************************************)
\* value * (allocation[asset] / 100) * (1 + RETURN)
AssetAfterReturn(value, pct, return) ==
    QMul(QMul(value, Q(pct, 10000)), Q(1000 + return, 1000))

\* calculate_final_value of calculate_required_deposit
RECURSIVE FinalValueFrom(_, _, _, _)
FinalValueFrom(value, deposit, n, allocation) ==
    IF n <= 0 THEN value
    ELSE LET v == QAdd(value, deposit)
             stocks == AssetAfterReturn(v, allocation.stocks, STOCKS_RETURN)
             bonds == AssetAfterReturn(v, allocation.bonds, BONDS_RETURN)
             cash == AssetAfterReturn(v, allocation.cash, CASH_RETURN)
         IN  FinalValueFrom(QAdd(QAdd(stocks, bonds), cash), deposit, n - 1, allocation)

calculate_final_value(deposit, n, allocation) ==
    FinalValueFrom(QZero, deposit, n, allocation)

(***************************************************************************)
(* Bounds and input sets                                                   *)
(***************************************************************************)
\* largest time_horizon handed to generate_glide_path directly
MaxHorizon == 12
\* largest years / time_horizon handed to the solver and the projection directly
MaxYears == 4
MinHorizon == 0 - 1

\* days from start_date to university_start_date in the form
DaysSet == {0 - 30, 0, 1, 182, 183, 547, 548, 1461}
TuitionSet == {1000, 20000}
UniversityYearsSet == {1, 4}
\* goals of direct solver calls (dollars); a negative one for the years <= 0 case
GoalSet == {0 - 500, 0, 1, 1000, 25000}
AllocationSet ==
    {[stocks |-> 5900, bonds |-> 4100, cash |-> 0],
     [stocks |-> 10000, bonds |-> 0, cash |-> 0],
     [stocks |-> 0, bonds |-> 0, cash |-> 10000]}
        \cup {calculate_start_allocation(h) : h \in 1..MaxYears}
DepositSet == {QInt(1000), Q(5315542, 1024)}

NoAllocation == [stocks |-> 0, bonds |-> 0, cash |-> 0]

(***************************************************************************)
(* State                                                                   *)
(***************************************************************************)
VARIABLES
    entry,               \* the function the run entered: main or a core function
    pc,                  \* position in the code
    outcome,             \* "running", "returned", "st.error", "ZeroDivisionError"
    days, annual_tuition, years_in_university,   \* main's form inputs
    time_horizon,
    total_savings_goal,
    start_allocation,    \* main's start_allocation (line 207)
    gp_start,            \* generate_glide_path's local start_allocation (line 62)
    glide_path,
    year,                \* loop variable of the glide-path and projection loops
    goal, years, allocation,                     \* calculate_required_deposit's arguments
    low, high, guess, final_value,
    iter,                \* binary-search iterations run
    sim_steps,           \* years simulated by calculate_final_value so far
    recommended_deposit,
    annual_deposit, portfolio_value, projections,
    reads                \* indices of glide_path the projection has read

mainVars == <<days, annual_tuition, years_in_university, total_savings_goal, start_allocation>>
glideVars == <<gp_start, glide_path>>
solveArgs == <<goal, years, allocation>>
solveVars == <<low, high, guess, final_value, iter, sim_steps>>
projVars == <<annual_deposit, portfolio_value, projections, reads>>
vars == <<entry, pc, outcome, time_horizon, year, recommended_deposit,
          mainVars, glideVars, solveArgs, solveVars, projVars>>

Blank ==
    /\ outcome = "running"
    /\ days = 0 /\ annual_tuition = 0 /\ years_in_university = 0
    /\ total_savings_goal = QZero
    /\ start_allocation = NoAllocation
    /\ gp_start = NoAllocation
    /\ year = 0
    /\ low = QZero /\ high = QZero /\ guess = QZero /\ final_value = QZero
    /\ iter = 0 /\ sim_steps = 0
    /\ recommended_deposit = QZero
    /\ portfolio_value = QZero /\ projections = <<>> /\ reads = {}

\* main(), the form submitted
InitMain ==
    /\ entry = "main" /\ pc = "submit" /\ outcome = "running"
    /\ days \in DaysSet
    /\ annual_tuition \in TuitionSet
    /\ years_in_university \in UniversityYearsSet
    /\ time_horizon = 0
    /\ total_savings_goal = QZero
    /\ start_allocation = NoAllocation /\ gp_start = NoAllocation
    /\ glide_path = <<>> /\ year = 0
    /\ goal = QZero /\ years = 0 /\ allocation = NoAllocation
    /\ low = QZero /\ high = QZero /\ guess = QZero /\ final_value = QZero
    /\ iter = 0 /\ sim_steps = 0
    /\ recommended_deposit = QZero
    /\ annual_deposit = QZero
    /\ portfolio_value = QZero /\ projections = <<>> /\ reads = {}

\* generate_glide_path(time_horizon) called directly
InitGlide ==
    /\ entry = "generate_glide_path" /\ pc = "glide_entry"
    /\ Blank
    /\ time_horizon \in MinHorizon..MaxHorizon
    /\ glide_path = <<>>
    /\ goal = QZero /\ years = 0 /\ allocation = NoAllocation
    /\ annual_deposit = QZero

\* calculate_required_deposit(goal, years, start_allocation) called directly
InitDeposit ==
    /\ entry = "calculate_required_deposit" /\ pc = "solve_entry"
    /\ Blank
    /\ time_horizon = 0
    /\ glide_path = <<>>
    /\ years \in MinHorizon..MaxYears
    /\ \E g \in GoalSet : (years >= 1 => g >= 0) /\ goal = QInt(g)
    /\ allocation \in AllocationSet
    /\ annual_deposit = QZero

\* calculate_portfolio_projections(annual_deposit, time_horizon, glide_path)
\* called directly, with the glide path of that horizon
InitProjection ==
    /\ entry = "calculate_portfolio_projections" /\ pc = "proj_entry"
    /\ Blank
    /\ time_horizon \in MinHorizon..MaxYears
    /\ glide_path = IF time_horizon >= 1 THEN generate_glide_path(time_horizon) ELSE <<>>
    /\ goal = QZero /\ years = 0 /\ allocation = NoAllocation
    /\ annual_deposit \in DepositSet

Init == InitMain \/ InitGlide \/ InitDeposit \/ InitProjection

(***************************************************************************)
(* main, lines 189-224                                                     *)
(***************************************************************************)
\* round((university_start_date - start_date).days / 365.25)
HorizonOfDays(d) == RoundHalfEven(d * 100, 36525)

\* start_date >= university_start_date
DatesRejected(d) == d <= 0

\* mutant: the cushion left out
SavingsGoal_NoCushion(tuition, n) == QInt(tuition * n)

\* total_tuition + total_tuition * CUSHION_PERCENTAGE
SavingsGoal(tuition, n) ==
    QAdd(QInt(tuition * n), QMul(QInt(tuition * n), Q(CUSHION_PERCENTAGE, 100)))

SubmitRejected ==
    /\ pc = "submit" /\ DatesRejected(days)
    /\ pc' = "done" /\ outcome' = "st.error"
    /\ UNCHANGED <<entry, time_horizon, year, recommended_deposit,
                   mainVars, glideVars, solveArgs, solveVars, projVars>>

SubmitAccepted ==
    /\ pc = "submit" /\ ~DatesRejected(days)
    /\ time_horizon' = HorizonOfDays(days)
    /\ total_savings_goal' = SavingsGoal(annual_tuition, years_in_university)
    /\ start_allocation' = calculate_start_allocation(time_horizon')
    /\ pc' = "glide_entry"
    /\ UNCHANGED <<entry, outcome, year, recommended_deposit, days, annual_tuition,
                   years_in_university, glideVars, solveArgs, solveVars, projVars>>

(***************************************************************************)
(* generate_glide_path, lines 60-76                                        *)
(***************************************************************************)
GlideEnter ==
    /\ pc = "glide_entry"
    /\ gp_start' = calculate_start_allocation(time_horizon)
    /\ glide_path' = <<>>
    /\ year' = 0
    /\ pc' = "glide_loop"
    /\ UNCHANGED <<entry, outcome, time_horizon, recommended_deposit,
                   mainVars, solveArgs, solveVars, projVars>>

\* one iteration of "for year in range(time_horizon + 1)"
GlideStep ==
    /\ pc = "glide_loop" /\ year <= time_horizon /\ time_horizon # 0
    /\ glide_path' = Append(glide_path, GlideEntry(gp_start, year, time_horizon))
    /\ year' = year + 1
    /\ UNCHANGED <<entry, pc, outcome, time_horizon, recommended_deposit, gp_start,
                   mainVars, solveArgs, solveVars, projVars>>

\* "... * year / time_horizon" with time_horizon = 0
GlideDivZero ==
    /\ pc = "glide_loop" /\ year <= time_horizon /\ time_horizon = 0
    /\ pc' = "done" /\ outcome' = "ZeroDivisionError"
    /\ UNCHANGED <<entry, time_horizon, year, recommended_deposit,
                   mainVars, glideVars, solveArgs, solveVars, projVars>>

GlideReturn ==
    /\ pc = "glide_loop" /\ year > time_horizon
    /\ IF entry = "main"
       THEN /\ pc' = "solve_entry"
            /\ goal' = total_savings_goal
            /\ years' = time_horizon
            /\ allocation' = start_allocation
            /\ UNCHANGED outcome
       ELSE /\ pc' = "done" /\ outcome' = "returned"
            /\ UNCHANGED solveArgs
    /\ UNCHANGED <<entry, time_horizon, year, recommended_deposit,
                   mainVars, glideVars, solveVars, projVars>>

(***************************************************************************)
(* calculate_required_deposit, lines 78-105                                *)
(***************************************************************************)
\* "return ..." of the solver: back to main (line 213), or the call is over
ReturnDeposit(value) ==
    /\ recommended_deposit' = value
    /\ IF entry = "main"
       THEN /\ pc' = "proj_entry"
            /\ annual_deposit' = value
            /\ UNCHANGED outcome
       ELSE /\ pc' = "done" /\ outcome' = "returned"
            /\ UNCHANGED annual_deposit

\* mutant: years < 0
Degenerate_Strict(n) == n < 0

\* if years <= 0
Degenerate(n) == n <= 0

\* if years <= 0: return goal
SolveDegenerate ==
    /\ pc = "solve_entry" /\ Degenerate(years)
    /\ ReturnDeposit(goal)
    /\ UNCHANGED <<entry, time_horizon, year, mainVars, glideVars, solveArgs, solveVars,
                   portfolio_value, projections, reads>>

\* guess = goal / years; low, high = 0, goal * 2
InitialGuess(g, n) == [neg |-> FALSE, n |-> g.n, d |-> BMul(g.d, BFromNat(n))]
InitialHigh(g) == QMul(g, QInt(2))

SolveStart ==
    /\ pc = "solve_entry" /\ ~Degenerate(years)
    /\ guess' = InitialGuess(goal, years)
    /\ low' = QZero
    /\ high' = InitialHigh(goal)
    /\ pc' = "solve_loop"
    /\ UNCHANGED <<entry, outcome, time_horizon, year, recommended_deposit, mainVars,
                   glideVars, solveArgs, final_value, iter, sim_steps, projVars>>

\* mutant: a tolerance of 0.1
WithinTolerance_Loose(fv, g) == QLess(QAbsDiff(fv, g), Q(1, 10))

\* mutant: the bracket narrowed the wrong way
RaisesLow_Flipped(fv, g) == QLess(g, fv)

Midpoint(lo, hi) == QHalf(QAdd(lo, hi))
\* abs(final_value - goal) < 0.01
WithinTolerance(fv, g) == QLess(QAbsDiff(fv, g), Tolerance)
\* if final_value < goal: low = guess
RaisesLow(fv, g) == QLess(fv, g)

\* one iteration of "for _ in range(20)"
SolveIter ==
    /\ pc = "solve_loop" /\ iter < SearchIterations
    /\ LET g == Midpoint(low, high)
           fv == calculate_final_value(g, years, allocation)
       IN  /\ guess' = g
           /\ final_value' = fv
           /\ iter' = iter + 1
           /\ sim_steps' = sim_steps + years
           /\ IF WithinTolerance(fv, goal)
              THEN pc' = "solve_break" /\ UNCHANGED <<low, high>>
              ELSE /\ pc' = "solve_loop"
                   /\ IF RaisesLow(fv, goal)
                      THEN low' = g /\ UNCHANGED high
                      ELSE high' = g /\ UNCHANGED low
    /\ UNCHANGED <<entry, outcome, time_horizon, year, recommended_deposit, mainVars,
                   glideVars, solveArgs, projVars>>

\* return guess, after the break or after the last iteration
SolveReturn ==
    /\ pc = "solve_break" \/ (pc = "solve_loop" /\ iter >= SearchIterations)
    /\ ReturnDeposit(guess)
    /\ UNCHANGED <<entry, time_horizon, year, mainVars, glideVars, solveArgs, solveVars,
                   portfolio_value, projections, reads>>

(***************************************************************************)
(* calculate_portfolio_projections, lines 107-141                          *)
(***************************************************************************)
ProjEnter ==
    /\ pc = "proj_entry"
    /\ projections' = <<>>
    /\ portfolio_value' = QZero
    /\ reads' = {}
    /\ year' = 1
    /\ pc' = "proj_loop"
    /\ UNCHANGED <<entry, outcome, time_horizon, recommended_deposit, mainVars,
                   glideVars, solveArgs, solveVars, annual_deposit>>

\* mutant: no lag, glide_path[year]
AllocationIndex_NoLag(y) == y

\* the index of glide_path read in year y: glide_path[year - 1]
AllocationIndex(y) == y - 1

\* the record appended in year y from the value carried over
ProjectionRecord(value, deposit, y, path) ==
    LET v == QAdd(value, deposit)
        a == path[AllocationIndex(y) + 1]
        stocks_after_return == AssetAfterReturn(v, a.stocks, STOCKS_RETURN)
        bonds_after_return == AssetAfterReturn(v, a.bonds, BONDS_RETURN)
        cash_after_return == AssetAfterReturn(v, a.cash, CASH_RETURN)
    IN  [year |-> y,
         deposit |-> deposit,
         portfolio_value |-> QAdd(QAdd(stocks_after_return, bonds_after_return),
                                  cash_after_return),
         stocks_value |-> stocks_after_return,
         bonds_value |-> bonds_after_return,
         cash_value |-> cash_after_return]

\* one iteration of "for year in range(1, time_horizon + 1)"
ProjStep ==
    /\ pc = "proj_loop" /\ year <= time_horizon
    /\ LET r == ProjectionRecord(portfolio_value, annual_deposit, year, glide_path)
       IN  /\ projections' = Append(projections, r)
           /\ portfolio_value' = r.portfolio_value
    /\ reads' = reads \cup {AllocationIndex(year)}
    /\ year' = year + 1
    /\ UNCHANGED <<entry, pc, outcome, time_horizon, recommended_deposit, mainVars,
                   glideVars, solveArgs, solveVars, annual_deposit>>

ProjReturn ==
    /\ pc = "proj_loop" /\ year > time_horizon
    /\ pc' = "done" /\ outcome' = "returned"
    /\ UNCHANGED <<entry, time_horizon, year, recommended_deposit, mainVars,
                   glideVars, solveArgs, solveVars, projVars>>

Next ==
    \/ SubmitRejected
    \/ SubmitAccepted
    \/ GlideEnter
    \/ GlideStep
    \/ GlideDivZero
    \/ GlideReturn
    \/ SolveDegenerate
    \/ SolveStart
    \/ SolveIter
    \/ SolveReturn
    \/ ProjEnter
    \/ ProjStep
    \/ ProjReturn

Spec == Init /\ [][Next]_vars

(***************************************************************************)
(* Helpers of the properties                                               *)
(***************************************************************************)
RECURSIVE BPow2(_)
BPow2(k) == IF k = 0 THEN <<1>> ELSE BMulLimb(BPow2(k - 1), 2)
QPow2(k) == [neg |-> FALSE, n |-> BPow2(k), d |-> <<1>>]

\* the solver's fixed-allocation simulation of a deposit, for the run's arguments
Simulated(deposit) == calculate_final_value(deposit, years, allocation)
\* (2 * goal / 2^20) * (final value of a deposit of 1): what one bracket of the
\* 20th iteration is worth in final value
ResidualBound ==
    QMul(QMul(QMul(goal, QInt(2)), [neg |-> FALSE, n |-> <<1>>, d |-> BPow2(20)]),
         Simulated(QInt(1)))

SolverReturned ==
    /\ entry \in {"calculate_required_deposit", "main"}
    /\ pc \in {"done", "proj_entry", "proj_loop"}
    /\ outcome \in {"running", "returned"}
    /\ (entry = "calculate_required_deposit" => pc = "done")

Case25000 ==
    /\ entry = "calculate_required_deposit"
    /\ goal = QInt(25000) /\ years = 4
    /\ allocation = [stocks |-> 5900, bonds |-> 4100, cash |-> 0]

(***************************************************************************)
(* C1 (as stated): calculate_required_deposit(25000, 4, {59, 41, 0})       *)
(* returns a deposit whose simulated final value is within 0.01 of 25000.  *)
(***************************************************************************)
C1_Within001 ==
    (Case25000 /\ SolverReturned)
        => QLess(QAbsDiff(Simulated(recommended_deposit), goal), Q(1, 100))

(***************************************************************************)
(* C1 (amended): for years >= 1 and goal > 0 the returned deposit's        *)
(* simulated final value is within 0.01 of the goal, or the search used    *)
(* all 20 iterations and the difference is at most                         *)
(* (2 * goal / 2^20) * sum of the compounded growth factors; for 25000 / 4 *)
(* / {59, 41, 0} the search uses all 20 iterations and ends between 0.04   *)
(* and 0.05 away from the goal.                                            *)
(***************************************************************************)
C1_ResidualError ==
    (SolverReturned /\ years >= 1 /\ QLess(QZero, goal))
        => LET diff == QAbsDiff(Simulated(recommended_deposit), goal)
           IN  /\ \/ QLess(diff, Q(1, 100))
                  \/ iter = 20 /\ QLeq(diff, ResidualBound)
               /\ Case25000 => /\ iter = 20
                               /\ QLess(Q(4, 100), diff)
                               /\ QLess(diff, Q(5, 100))

C1_Witness ==
    /\ Case25000 /\ SolverReturned /\ iter = 20
    /\ ~QLess(QAbsDiff(Simulated(recommended_deposit), goal), Q(1, 100))

(***************************************************************************)
(* C2: for time_horizon >= 1 the finished glide path has time_horizon + 1  *)
(* entries with year 0, 1, ..., time_horizon in order, entry 0 is          *)
(* calculate_start_allocation(time_horizon) and the last entry is exactly  *)
(* {stocks 20, bonds 43, cash 37}.                                         *)
(***************************************************************************)
GlideFinished ==
    /\ entry \in {"main", "generate_glide_path"}
    /\ \/ pc = "glide_loop" /\ year > time_horizon
       \/ pc \in {"solve_entry", "solve_loop", "solve_break", "proj_entry", "proj_loop"}
       \/ pc = "done" /\ outcome = "returned"

C2_GlidePathEnds ==
    (GlideFinished /\ time_horizon >= 1)
        => /\ Len(glide_path) = time_horizon + 1
           /\ \A i \in 1..Len(glide_path) : glide_path[i].year = i - 1
           /\ LET first == glide_path[1]
                  last == glide_path[time_horizon + 1]
                  start == calculate_start_allocation(time_horizon)
              IN  /\ first.stocks = start.stocks
                  /\ first.bonds = start.bonds
                  /\ first.cash = start.cash
                  /\ last.stocks = 2000 /\ last.bonds = 4300 /\ last.cash = 3700

C2_Witness ==
    /\ entry = "generate_glide_path" /\ pc = "done" /\ outcome = "returned"
    /\ time_horizon = 7 /\ Len(glide_path) = 8
    /\ glide_path[1].stocks = 6200 /\ glide_path[8].cash = 3700

(***************************************************************************)
(* C3: every entry of a glide path has stocks, bonds and cash in [0, 100]  *)
(* and their sum within 0.02 of 100.                                       *)
(***************************************************************************)
C3_AllocationsSum ==
    \A i \in 1..Len(glide_path) :
        LET e == glide_path[i]
            sum == e.stocks + e.bonds + e.cash
        IN  /\ 0 <= e.stocks /\ e.stocks <= 10000
            /\ 0 <= e.bonds /\ e.bonds <= 10000
            /\ 0 <= e.cash /\ e.cash <= 10000
            /\ 9998 <= sum /\ sum <= 10002

\* a path with an entry whose sum is off 100 by rounding, and a long one
C3_Witness ==
    /\ entry = "generate_glide_path" /\ pc = "done" /\ time_horizon = 11
    /\ Len(glide_path) = 12
    /\ glide_path[2] = [year |-> 1, stocks |-> 7455, bonds |-> 1755, cash |-> 791]
    /\ glide_path[7].stocks + glide_path[7].bonds + glide_path[7].cash = 9999

(***************************************************************************)
(* C4 (as stated): a core call of generate_glide_path or                   *)
(* calculate_portfolio_projections with time_horizon < 1 ends in an        *)
(* InvalidHorizon error and returns nothing.                               *)
(***************************************************************************)
C4_InvalidHorizon ==
    (/\ entry \in {"generate_glide_path", "calculate_portfolio_projections"}
     /\ pc = "done" /\ time_horizon < 1)
        => outcome = "InvalidHorizon"

(***************************************************************************)
(* C5 (as stated): tuition 20000, 4 years of university, time_horizon 4:   *)
(* the goal is 92000, there are 4 projection records and the last          *)
(* portfolio_value is within 0.01 of 92000.                                *)
(***************************************************************************)
Scenario92000 ==
    /\ entry = "main" /\ pc = "done" /\ outcome = "returned"
    /\ annual_tuition = 20000 /\ years_in_university = 4 /\ time_horizon = 4

C5_TerminalIsGoal ==
    Scenario92000
        => /\ QEq(total_savings_goal, QInt(92000))
           /\ Len(projections) = 4
           /\ QLess(QAbsDiff(projections[4].portfolio_value, QInt(92000)), Q(1, 100))

(***************************************************************************)
(* C5 (amended): in that scenario the goal is 92000, there are 4 records,  *)
(* and the last portfolio_value is 1911.31 to 1911.32 below 92000: the     *)
(* deposit was solved against the start allocation alone (whose own        *)
(* simulation ends between 0.36 and 0.37 away from 92000 after all 20      *)
(* iterations) while the projection follows the glide path.                *)
(***************************************************************************)
C5_TerminalShortOfGoal ==
    Scenario92000
        => /\ QEq(total_savings_goal, QInt(92000))
           /\ Len(projections) = 4
           /\ \A i \in 1..4 : projections[i].year = i
           /\ QLess(projections[4].portfolio_value, QInt(92000))
           /\ LET short == QAbsDiff(projections[4].portfolio_value, QInt(92000))
                  own == QAbsDiff(Simulated(recommended_deposit), QInt(92000))
              IN  /\ QLess(Q(191131, 100), short) /\ QLess(short, Q(191132, 100))
                  /\ QLess(Q(36, 100), own) /\ QLess(own, Q(37, 100))
                  /\ iter = 20

C5_Witness == Scenario92000 /\ Len(projections) = 4 /\ Len(glide_path) = 5

(***************************************************************************)
(* C6: with years <= 0 calculate_required_deposit returns exactly the goal *)
(* and runs no search iteration and no simulation step.                    *)
(***************************************************************************)
C6_DegenerateReturnsGoal ==
    (entry = "calculate_required_deposit" /\ years <= 0 /\ pc # "solve_entry")
        => /\ pc = "done" /\ outcome = "returned"
           /\ recommended_deposit = goal
           /\ iter = 0 /\ sim_steps = 0

C6_Witness ==
    /\ entry = "calculate_required_deposit" /\ pc = "done"
    /\ years = 0 /\ goal = QInt(25000) /\ recommended_deposit = QInt(25000)

(***************************************************************************)
(* C7: the stocks percentage of calculate_start_allocation does not        *)
(* decrease as time_horizon grows from 0 to 10, and is 80 from 10 on.      *)
(***************************************************************************)
C7_StocksMonotone ==
    (entry = "generate_glide_path" /\ pc # "glide_entry" /\ time_horizon >= 0)
        => /\ time_horizon <= 10 =>
                \A h1 \in 0..time_horizon :
                    calculate_start_allocation(h1).stocks <= gp_start.stocks
           /\ time_horizon >= 10 => gp_start.stocks = 8000

C7_Witness ==
    /\ entry = "generate_glide_path" /\ pc = "done" /\ time_horizon = 12
    /\ gp_start.stocks = 8000
    /\ calculate_start_allocation(3).stocks < calculate_start_allocation(4).stocks

(***************************************************************************)
(* C8: the projection emits one record per year 1..time_horizon in order;  *)
(* record N's portfolio_value is the sum of its three components, each     *)
(* (previous portfolio_value + deposit) * glide_path[N-1] percentage / 100 *)
(* * (1 + the asset's return), starting from 0; the last glide-path entry  *)
(* is never read.                                                          *)
(***************************************************************************)
C8_Component(prev, deposit, pct, return) ==
    QMul(QMul(QAdd(prev, deposit), Q(pct, 10000)), Q(1000 + return, 1000))

C8_OneYearLag ==
    (entry \in {"calculate_portfolio_projections", "main"} /\ pc \in {"proj_loop", "done"}
        /\ outcome \in {"running", "returned"})
        => /\ \A i \in 1..Len(projections) :
                LET r == projections[i]
                    prev == IF i = 1 THEN QZero ELSE projections[i - 1].portfolio_value
                    a == glide_path[(i - 1) + 1]
                IN  /\ r.year = i
                    /\ r.deposit = annual_deposit
                    /\ QEq(r.stocks_value, C8_Component(prev, annual_deposit, a.stocks, 113))
                    /\ QEq(r.bonds_value, C8_Component(prev, annual_deposit, a.bonds, 46))
                    /\ QEq(r.cash_value, C8_Component(prev, annual_deposit, a.cash, 41))
                    /\ QEq(r.portfolio_value,
                           QAdd(QAdd(r.stocks_value, r.bonds_value), r.cash_value))
           /\ reads \subseteq 0..(time_horizon - 1)
           /\ (pc = "done" /\ time_horizon >= 1)
                => Len(projections) = time_horizon /\ reads = 0..(time_horizon - 1)

C8_Witness ==
    /\ entry = "calculate_portfolio_projections" /\ pc = "done"
    /\ time_horizon = 4 /\ Len(projections) = 4 /\ Len(glide_path) = 5
    /\ reads = 0..3
    /\ annual_deposit = QInt(1000)

(***************************************************************************)
(* C9: with years >= 1 and goal >= 0 the search runs at most 20            *)
(* iterations, and at every iteration 0 <= low <= guess <= high <= 2*goal, *)
(* the bracket is 2*goal / 2^k wide after k iterations that did not exit,  *)
(* simulated(low) <= goal <= simulated(high), and the returned deposit is  *)
(* in [0, 2*goal].                                                         *)
(***************************************************************************)
C9_BracketInvariant ==
    (pc \in {"solve_loop", "solve_break"})
        => LET k == IF pc = "solve_break" THEN iter - 1 ELSE iter
               twice == QMul(goal, QInt(2))
           IN  /\ iter <= 20
               /\ QLeq(QZero, low) /\ QLeq(low, guess) /\ QLeq(guess, high)
               /\ QLeq(high, twice)
               /\ QEq(QMul(QAbsDiff(high, low), QPow2(k)), twice)
               /\ QLeq(Simulated(low), goal) /\ QLeq(goal, Simulated(high))

C9_Bracket ==
    /\ C9_BracketInvariant
    /\ (SolverReturned /\ years >= 1)
          => /\ iter >= 1 /\ iter <= 20
             /\ QLeq(QZero, recommended_deposit)
             /\ QLeq(recommended_deposit, QMul(goal, QInt(2)))

C9_Witness ==
    /\ Case25000 /\ pc = "solve_loop" /\ iter = 20
    /\ QLess(QZero, low) /\ QLess(low, high) /\ QLess(high, QInt(50000))

(***************************************************************************)
(* C10 (as stated): once main's date validation has passed, the            *)
(* time_horizon handed to the core is >= 1 and the run does not end in a   *)
(* division by zero.                                                       *)
(***************************************************************************)
C10_HorizonAtLeastOne ==
    (entry = "main" /\ pc # "submit" /\ outcome # "st.error")
        => time_horizon >= 1 /\ outcome # "ZeroDivisionError"

====
